---- MODULE Spec2Model ----
(***************************************************************************)
(* KidQuest Champions: the AuthProvider (src/contexts/AuthContext.tsx) and *)
(* the RoomsPage (src/pages/RoomsPage.tsx) as clients of the hosted        *)
(* document store (collections `users` and `rooms`).                       *)
(*                                                                         *)
(* Every `await` of a handler is a suspension point: a handler is split    *)
(* into the step that runs up to the await (it reads the React state the   *)
(* closure captured) and the step that runs when the store answers.        *)
(***************************************************************************)
EXTENDS Integers, Sequences, FiniteSets, TLC

(***************************************************************************)
(* Bounds                                                                  *)
(***************************************************************************)
MaxRooms == 2        \* rooms the store may hold
MaxTime == 1         \* Date.now() ranges over 0..MaxTime
MaxPending == 2      \* AuthProvider requests in flight per client
MaxCoins == 3        \* coins are capped in the guards

Clients == {"c1", "c2", "c3"}
Users == {"u1", "u2", "u3"}
NULL == "null"
Ws == " "

IdChars == <<"1", "2", "3", "4", "5", "6">>
RoomIds == {<<"r", IdChars[i]>> : i \in 1..MaxRooms}

\* What the user may have typed in the "join" text box.
Pad(id) == <<Ws>> \o id \o <<Ws>>
JoinInputs == RoomIds \cup {Pad(id) : id \in RoomIds}
                \cup {<<>>, <<Ws, Ws>>}

NullRec == [null |-> TRUE]

VARIABLES
  now,          \* the last value read from Date.now()
  users,        \* store collection users: uid -> profile document, NullRec if absent
  rooms,        \* store collection rooms: function from the ids of the stored rooms
  currentUser,  \* AuthProvider state, per client
  userProfile,  \* AuthProvider state, per client (cached profile)
  loading,      \* AuthProvider state, per client
  authUser,     \* per client: the user the auth service holds, "init" before it reported
  pending,      \* per client: AuthProvider handlers suspended at an await
  modal,        \* per client: title of the last modal shown, "none" if none
  route,        \* per client: the room the router shows, <<>> for the list page
  roomOp,       \* per client: the RoomsPage handler suspended at an await
  detail,       \* per client: what the room detail page did with the shown room
  listOp,       \* per client: the fetchRooms run suspended at an await
  myRooms,      \* per client: RoomsPage state myRooms
  chOp,         \* per client: the challenge mutation suspended at its write
  chResult,     \* per client: how the last challenge mutation ended
  error,        \* per client: Login state error, "" if none
  sc            \* scenario driver of the call-sequence specifications

vars == <<now, users, rooms, currentUser, userProfile, loading, authUser,
          pending, modal, route, roomOp, detail, listOp, myRooms, chOp,
          chResult, error, sc>>

pageVars == <<listOp, myRooms, chOp, chResult, error>>

authVars == <<currentUser, userProfile, loading, authUser, pending>>

(***************************************************************************)
(* String.prototype.trim on the typed room id                              *)
(***************************************************************************)
RECURSIVE TrimStart(_)
TrimStart(s) ==
  IF s = <<>> THEN <<>>
  ELSE IF Head(s) = Ws THEN TrimStart(Tail(s)) ELSE s

RECURSIVE TrimEnd(_)
TrimEnd(s) ==
  IF s = <<>> THEN <<>>
  ELSE IF s[Len(s)] = Ws THEN TrimEnd(SubSeq(s, 1, Len(s) - 1)) ELSE s

Trim(s) == TrimEnd(TrimStart(s))

(***************************************************************************)
(* RoomsPage                                                               *)
(***************************************************************************)
Idle == [kind |-> "idle"]

ShowModal(c, title) == modal' = [modal EXCEPT ![c] = title]

\* Mutant of NewRoom: the creator is not recorded.
NewRoomNoCreator(uid, t) ==
  [player1Id |-> NULL,
   player2Id |-> NULL,
   status |-> "waiting",
   createdAt |-> t,
   messages |-> <<>>,
   currentChallenge |-> NullRec]

\* Mutant of NewRoom: the creator is also stored as the second player.
NewRoomSelfJoined(uid, t) ==
  [player1Id |-> uid,
   player2Id |-> uid,
   status |-> "waiting",
   createdAt |-> t,
   messages |-> <<>>,
   currentChallenge |-> NullRec]

\* The document createRoom hands to addDoc.
NewRoom(uid, t) ==
  [player1Id |-> uid,
   player2Id |-> NULL,
   status |-> "waiting",
   createdAt |-> t,
   messages |-> <<>>,
   currentChallenge |-> NullRec]

RoomExists(id) == id \in DOMAIN rooms

\* Mutant of JoinCheck: the "room is full" check is missing.
JoinCheckNoFull(exists, roomData, uid) ==
  IF ~exists THEN "notFound"
  ELSE IF roomData.player1Id = uid \/ roomData.player2Id = uid THEN "member"
  ELSE "navigate"

\* Mutant of JoinCheck: the existence check is missing.
JoinCheckNoExists(exists, roomData, uid) ==
  IF ~exists THEN "navigate"
  ELSE IF roomData.player1Id = uid \/ roomData.player2Id = uid THEN "member"
  ELSE IF roomData.player2Id # NULL THEN "full"
  ELSE "navigate"

\* The branch joinRoom takes on the snapshot it read.
JoinCheck(exists, roomData, uid) ==
  IF ~exists THEN "notFound"
  ELSE IF roomData.player1Id = uid \/ roomData.player2Id = uid THEN "member"
  ELSE IF roomData.player2Id # NULL THEN "full"
  ELSE "navigate"

\* createRoom up to `await addDoc`; time has passed since Date.now() was
\* last read.
CreateRoom(c) ==
  /\ roomOp[c] = Idle
  /\ \E t \in now..MaxTime : now' = t
  /\ roomOp' = [roomOp EXCEPT ![c] =
                  IF currentUser[c] # NULL
                    THEN [kind |-> "create",
                          newRoom |-> NewRoom(currentUser[c], now')]
                    ELSE @]
  /\ UNCHANGED <<users, rooms, authVars, modal, route, detail, pageVars>>

\* The id addDoc generates: ids are opaque and interchangeable, so the store
\* hands them out in a fixed order.
FreshId == <<"r", IdChars[Cardinality(DOMAIN rooms) + 1]>>

\* addDoc resolved: the store assigned an unused id; navigate to the room.
CreateRoomDone(c) ==
  /\ roomOp[c].kind = "create"
  /\ FreshId \in RoomIds
  /\ rooms' = rooms @@ (FreshId :> roomOp[c].newRoom)
  /\ route' = [route EXCEPT ![c] = FreshId]
  /\ detail' = [detail EXCEPT ![c] = "entering"]
  /\ roomOp' = [roomOp EXCEPT ![c] = Idle]
  /\ UNCHANGED <<now, users, authVars, modal, pageVars>>

\* addDoc rejected.
CreateRoomFail(c) ==
  /\ roomOp[c].kind = "create"
  /\ modal' = [modal EXCEPT ![c] = "Room Creation Failed"]
  /\ roomOp' = [roomOp EXCEPT ![c] = Idle]
  /\ UNCHANGED <<now, users, rooms, authVars, route, detail, pageVars>>

\* joinRoom up to `await getDoc`.
JoinRoom(c, input) ==
  /\ roomOp[c] = Idle
  /\ roomOp' = [roomOp EXCEPT ![c] =
                  IF currentUser[c] # NULL /\ Trim(input) # <<>>
                    THEN [kind |-> "join", id |-> Trim(input),
                          uid |-> currentUser[c]]
                    ELSE @]
  /\ UNCHANGED <<now, users, rooms, authVars, modal, route, detail, pageVars>>

\* getDoc resolved: joinRoom's checks on the snapshot.
JoinRoomRead(c) ==
  /\ roomOp[c].kind = "join"
  /\ LET id == roomOp[c].id
         ex == RoomExists(id)
         branch == JoinCheck(ex, IF ex THEN rooms[id] ELSE NullRec, roomOp[c].uid)
     IN /\ modal' = [modal EXCEPT ![c] =
                       CASE branch = "notFound" -> "Room Not Found"
                         [] branch = "full" -> "Room is Full"
                         [] OTHER -> @]
        /\ route' = [route EXCEPT ![c] =
                       IF branch \in {"member", "navigate"} THEN id ELSE @]
        /\ detail' = [detail EXCEPT ![c] =
                        IF branch \in {"member", "navigate"} THEN "entering" ELSE @]
  /\ roomOp' = [roomOp EXCEPT ![c] = Idle]
  /\ UNCHANGED <<now, users, rooms, authVars, pageVars>>

\* getDoc rejected.
JoinRoomFail(c) ==
  /\ roomOp[c].kind = "join"
  /\ modal' = [modal EXCEPT ![c] = "Room Join Failed"]
  /\ roomOp' = [roomOp EXCEPT ![c] = Idle]
  /\ UNCHANGED <<now, users, rooms, authVars, route, detail, pageVars>>

(***************************************************************************)
(* RoomsPage: the effect that fetches the rooms of the user (fetchRooms)   *)
(***************************************************************************)
\* Mutant of Matching: the query matches the rooms that have uid as either
\* player.
MatchingAnyPlayer(field, uid) ==
  {id \in DOMAIN rooms : rooms[id].player1Id = uid \/ rooms[id].player2Id = uid}

\* The ids of the documents query(roomsRef, where(field, '==', uid)) matches.
Matching(field, uid) == {id \in DOMAIN rooms : rooms[id][field] = uid}

\* snapshot.docs of a query that matches ids: the documents in the order of
\* their (opaque) ids, which is any order.
Snapshots(ids) ==
  {[i \in 1..Cardinality(ids) |-> [id |-> order[i], data |-> rooms[order[i]]]] :
     order \in {f \in [1..Cardinality(ids) -> ids] :
                  \A i, j \in 1..Cardinality(ids) : i # j => f[i] # f[j]}}

\* name || fallback, for a name that is null or the empty string (<<>>)
OrElse(name, fallback) == IF name = <<>> THEN fallback ELSE name

\* userProfile?.username || 'You'
NameOrYou(profile) ==
  OrElse(IF profile = NullRec THEN <<>> ELSE profile.username, <<"You">>)

\* { id: docSnap.id, ...roomData, player1Name, player2Name }
Row(docSnap, player1Name, player2Name) ==
  [player1Name |-> player1Name, player2Name |-> player2Name]
    @@ docSnap.data @@ [id |-> docSnap.id]

\* Mutant of NewestFirst: the operands are swapped.
OldestFirst(a, b) == a.createdAt - b.createdAt

\* The comparator of the sort, (a, b) => b.createdAt - a.createdAt.
NewestFirst(a, b) == b.createdAt - a.createdAt

\* Array.prototype.sort(compare) is stable: x goes behind every element
\* that compare does not put behind x.
RECURSIVE InsertRoom(_, _)
InsertRoom(sorted, x) ==
  IF sorted = <<>> THEN <<x>>
  ELSE IF NewestFirst(Head(sorted), x) <= 0
         THEN <<Head(sorted)>> \o InsertRoom(Tail(sorted), x)
         ELSE <<x>> \o sorted

RECURSIVE SortInto(_, _)
SortInto(sorted, list) ==
  IF list = <<>> THEN sorted
  ELSE SortInto(InsertRoom(sorted, Head(list)), Tail(list))

\* rooms.sort((a, b) => b.createdAt - a.createdAt)
SortRooms(list) == SortInto(<<>>, list)

\* The documents of both snapshots in the order the loops visit them.
DocsOf(op) == op.snap1 \o op.snap2

\* fetchRooms runs on from document op.k until it has to await a getDoc
\* (the rooms of the first snapshot that have no second player need none);
\* op.k is behind the last document when no await is left.
RECURSIVE RunToAwait(_)
RunToAwait(op) ==
  IF op.k > Len(DocsOf(op)) THEN op
  ELSE IF op.k <= Len(op.snap1) /\ DocsOf(op)[op.k].data.player2Id = NULL
         THEN RunToAwait([op EXCEPT
                !.rows = Append(@, Row(DocsOf(op)[op.k], op.myName, <<"Waiting...">>)),
                !.k = @ + 1])
         ELSE op

\* fetchRooms goes on after an await: it suspends at the next getDoc, or
\* sorts the rows, sets myRooms and ends.
ListContinue(c, op) ==
  LET run == RunToAwait(op) IN
    IF run.k > Len(DocsOf(run))
      THEN /\ myRooms' = [myRooms EXCEPT ![c] = SortRooms(run.rows)]
           /\ listOp' = [listOp EXCEPT ![c] = Idle]
      ELSE /\ listOp' = [listOp EXCEPT ![c] = run]
           /\ UNCHANGED myRooms

\* The rooms page is opened: its effect calls fetchRooms, which runs up to
\* `await Promise.all([getDocs(q), getDocs(q2)])`.
FetchRooms(c) ==
  /\ listOp[c] = Idle
  /\ route' = [route EXCEPT ![c] = <<>>]
  /\ detail' = [detail EXCEPT ![c] = "none"]
  /\ listOp' = [listOp EXCEPT ![c] =
                  IF currentUser[c] # NULL /\ userProfile[c] # NullRec
                    THEN [kind |-> "list", uid |-> currentUser[c],
                          myName |-> NameOrYou(userProfile[c]),
                          got1 |-> FALSE, snap1 |-> <<>>,
                          got2 |-> FALSE, snap2 |-> <<>>,
                          rows |-> <<>>, k |-> 0]
                    ELSE @]
  /\ UNCHANGED <<error, now, users, rooms, authVars, modal, roomOp, myRooms, chOp,
                 chResult>>

\* The store answers the query on player1Id.
ListQuery1(c) ==
  /\ listOp[c].kind = "list"
  /\ ~listOp[c].got1
  /\ \E snap \in Snapshots(Matching("player1Id", listOp[c].uid)) :
       LET op == [listOp[c] EXCEPT !.got1 = TRUE, !.snap1 = snap] IN
         IF op.got2
           THEN ListContinue(c, [op EXCEPT !.k = 1])
           ELSE listOp' = [listOp EXCEPT ![c] = op] /\ UNCHANGED myRooms
  /\ UNCHANGED <<error, now, users, rooms, authVars, modal, route, roomOp, detail,
                 chOp, chResult>>

\* The store answers the query on player2Id.
ListQuery2(c) ==
  /\ listOp[c].kind = "list"
  /\ ~listOp[c].got2
  /\ \E snap \in Snapshots(Matching("player2Id", listOp[c].uid)) :
       LET op == [listOp[c] EXCEPT !.got2 = TRUE, !.snap2 = snap] IN
         IF op.got1
           THEN ListContinue(c, [op EXCEPT !.k = 1])
           ELSE listOp' = [listOp EXCEPT ![c] = op] /\ UNCHANGED myRooms
  /\ UNCHANGED <<error, now, users, rooms, authVars, modal, route, roomOp, detail,
                 chOp, chResult>>

\* The getDoc of the other player's profile ended (answered: it resolved).
ListName(c, answered) ==
  /\ listOp[c].kind = "list"
  /\ listOp[c].k >= 1
  /\ LET op == listOp[c]
         docSnap == DocsOf(op)[op.k]
         first == op.k <= Len(op.snap1)
         other == IF first THEN docSnap.data.player2Id ELSE docSnap.data.player1Id
         name == IF answered /\ users[other] # NullRec
                   THEN users[other].username ELSE <<>>
         row == IF first
                  THEN Row(docSnap, op.myName, OrElse(name, <<"Waiting...">>))
                  ELSE Row(docSnap, OrElse(name, <<"Unknown">>), op.myName)
     IN ListContinue(c, [op EXCEPT !.rows = Append(@, row), !.k = @ + 1])
  /\ UNCHANGED <<error, now, users, rooms, authVars, modal, route, roomOp, detail,
                 chOp, chResult>>

\* One of the two queries was rejected: the catch block.
ListFail(c) ==
  /\ listOp[c].kind = "list"
  /\ listOp[c].k = 0
  /\ ShowModal(c, "Room Fetch Error")
  /\ listOp' = [listOp EXCEPT ![c] = Idle]
  /\ UNCHANGED <<error, now, users, rooms, authVars, route, roomOp, detail, myRooms,
                 chOp, chResult>>

(***************************************************************************)
(* AuthProvider                                                            *)
(***************************************************************************)
Tasks == {"t1", "t2"}
Rewards == {1, 2}                 \* coinsEarned
AvatarPicks == {1, 6}             \* indices into AVATAR_OPTIONS
NameSuffixes == {"0", "9999"}         \* Math.floor(Math.random() * 10000)

defaultLocation ==
  [city |-> "Adventure City", state |-> "Questland", country |-> "Imagination"]

defaultUserProfile ==
  [username |-> <<"New Explorer">>,
   avatarUrl |-> 1,
   coins |-> 0,
   location |-> defaultLocation,
   completedTasks |-> <<>>,
   friendsList |-> <<>>]

\* Mutant of Merge: the document is replaced (as setDoc without merge does),
\* the fields data does not name fall back to their defaults.
MergeOverwrite(doc, data) ==
  [f \in DOMAIN doc |-> IF f \in DOMAIN data THEN data[f] ELSE defaultUserProfile[f]]

\* { ...prev, ...data } and updateDoc(ref, data): the fields of data replace
\* those of the document, the others stay.
Merge(doc, data) ==
  [f \in DOMAIN doc |-> IF f \in DOMAIN data THEN data[f] ELSE doc[f]]

\* The profile fetchUserProfile creates when the document is missing.
NewProfile(suffix, pick) ==
  Merge(defaultUserProfile,
        [username |-> <<"Explorer", suffix>>, avatarUrl |-> pick])

\* Array.prototype.includes
Includes(list, x) == \E i \in 1..Len(list) : list[i] = x

\* [...list, x]
Append1(list, x) == list \o <<x>>

\* Mutant of Without: the filter predicate is inverted.
RECURSIVE WithoutInverted(_, _)
WithoutInverted(list, x) ==
  IF list = <<>> THEN <<>>
  ELSE IF Head(list) # x THEN WithoutInverted(Tail(list), x)
       ELSE <<Head(list)>> \o WithoutInverted(Tail(list), x)

\* list.filter(id => id !== x)
RECURSIVE Without(_, _)
Without(list, x) ==
  IF list = <<>> THEN <<>>
  ELSE IF Head(list) = x THEN Without(Tail(list), x)
       ELSE <<Head(list)>> \o Without(Tail(list), x)

RemoveAt(q, i) == SubSeq(q, 1, i - 1) \o SubSeq(q, i + 1, Len(q))

Suspend(c, req) == pending' = [pending EXCEPT ![c] = Append(@, req)]
Resume(c, i) == pending' = [pending EXCEPT ![c] = RemoveAt(@, i)]

\* onAuthStateChanged callback up to its first await.
AuthStateChanged(c, user) ==
  /\ user # authUser[c]
  /\ authUser' = [authUser EXCEPT ![c] = user]
  /\ currentUser' = [currentUser EXCEPT ![c] = user]
  /\ IF user # NULL
       THEN /\ Len(pending[c]) < MaxPending
            /\ Suspend(c, [kind |-> "getProfile", uid |-> user])
            /\ UNCHANGED <<userProfile, loading>>
       ELSE /\ userProfile' = [userProfile EXCEPT ![c] = NullRec]
            /\ loading' = [loading EXCEPT ![c] = FALSE]
            /\ UNCHANGED pending
  /\ UNCHANGED <<now, users, rooms, modal, route, roomOp, detail, pageVars>>

\* fetchUserProfile: getDoc resolved with an existing document.
FetchFound(c, i) ==
  /\ i \in 1..Len(pending[c])
  /\ pending[c][i].kind = "getProfile"
  /\ users[pending[c][i].uid] # NullRec
  /\ userProfile' = [userProfile EXCEPT ![c] = users[pending[c][i].uid]]
  /\ loading' = [loading EXCEPT ![c] = FALSE]
  /\ Resume(c, i)
  /\ UNCHANGED <<now, users, rooms, currentUser, authUser, modal,
                 route, roomOp, detail, pageVars>>

\* fetchUserProfile: getDoc resolved with no document; up to `await setDoc`.
FetchMissing(c, i, suffix, pick) ==
  /\ i \in 1..Len(pending[c])
  /\ pending[c][i].kind = "getProfile"
  /\ users[pending[c][i].uid] = NullRec
  /\ pending' = [pending EXCEPT ![c][i] =
                   [kind |-> "setProfile", uid |-> @.uid,
                    newProfile |-> NewProfile(suffix, pick)]]
  /\ UNCHANGED <<now, users, rooms, currentUser, userProfile, loading, authUser,
                 modal, route, roomOp, detail, pageVars>>

\* fetchUserProfile: setDoc resolved.
FetchCreated(c, i) ==
  /\ i \in 1..Len(pending[c])
  /\ pending[c][i].kind = "setProfile"
  /\ users' = [users EXCEPT ![pending[c][i].uid] = pending[c][i].newProfile]
  /\ userProfile' = [userProfile EXCEPT ![c] = pending[c][i].newProfile]
  /\ loading' = [loading EXCEPT ![c] = FALSE]
  /\ Resume(c, i)
  /\ UNCHANGED <<now, rooms, currentUser, authUser, modal, route,
                 roomOp, detail, pageVars>>

\* fetchUserProfile: getDoc or setDoc rejected.
FetchFail(c, i) ==
  /\ i \in 1..Len(pending[c])
  /\ pending[c][i].kind \in {"getProfile", "setProfile"}
  /\ ShowModal(c, "Oops!")
  /\ loading' = [loading EXCEPT ![c] = FALSE]
  /\ Resume(c, i)
  /\ UNCHANGED <<now, users, rooms, currentUser, userProfile,
                 authUser, route, roomOp, detail, pageVars>>

Methods == {"anonymous", "email", "signup", "phone"}

\* The modal each sign-in handler shows in its catch block.
SignInFailureTitle(method) ==
  CASE method = "anonymous" -> "Login Failed"
    [] method = "email" -> "Login Error"
    [] method = "signup" -> "Signup Error"
    [] method = "phone" -> "Phone Login Failed"

\* signInAnonymouslyHandler, signInWithEmail, signUpWithEmail or
\* signInWithPhone (method says which) up to the await of the auth call.
SignIn(c, method) ==
  /\ Len(pending[c]) < MaxPending
  /\ loading' = [loading EXCEPT ![c] = TRUE]
  /\ Suspend(c, [kind |-> "signIn", method |-> method])

\* The auth call resolved: playSound, then the finally block.
SignInDone(c, i) ==
  /\ i \in 1..Len(pending[c])
  /\ pending[c][i].kind = "signIn"
  /\ loading' = [loading EXCEPT ![c] = FALSE]
  /\ Resume(c, i)
  /\ UNCHANGED <<now, users, rooms, currentUser, userProfile, authUser, modal,
                 route, roomOp, detail, pageVars>>

\* Mutant of SignInFail: the handler has no finally block.
SignInFailStillLoading(c, i) ==
  /\ i \in 1..Len(pending[c])
  /\ pending[c][i].kind = "signIn"
  /\ ShowModal(c, SignInFailureTitle(pending[c][i].method))
  /\ Resume(c, i)
  /\ UNCHANGED <<now, users, rooms, currentUser, userProfile, loading, authUser,
                 route, roomOp, detail, pageVars>>

\* The auth call rejected: the catch block shows the modal and swallows the
\* error, then the finally block.
SignInFail(c, i) ==
  /\ i \in 1..Len(pending[c])
  /\ pending[c][i].kind = "signIn"
  /\ ShowModal(c, SignInFailureTitle(pending[c][i].method))
  /\ loading' = [loading EXCEPT ![c] = FALSE]
  /\ Resume(c, i)
  /\ UNCHANGED <<now, users, rooms, currentUser, userProfile, authUser,
                 route, roomOp, detail, pageVars>>

\* What the callers of updateProfile may pass (a Partial<UserProfile>).
ProfileEdits ==
  {[username |-> <<"Hero">>],
   [coins |-> 0],
   [username |-> <<"Hero">>, avatarUrl |-> 6]}

\* Mutant of UpdateProfile: the early return for a missing user is missing.
UpdateProfileNoGuard(c, data) ==
  /\ Len(pending[c]) < MaxPending
  /\ Suspend(c, [kind |-> "updateProfile",
                 uid |-> IF currentUser[c] # NULL THEN currentUser[c] ELSE "u1",
                 data |-> data])
  /\ UNCHANGED <<now, users, rooms, currentUser, userProfile, loading, authUser,
                 modal, route, roomOp, detail, pageVars>>

\* updateProfile up to `await updateDoc`.
UpdateProfile(c, data) ==
  /\ Len(pending[c]) < MaxPending
  /\ IF currentUser[c] # NULL
       THEN Suspend(c, [kind |-> "updateProfile", uid |-> currentUser[c],
                        data |-> data])
       ELSE UNCHANGED pending
  /\ UNCHANGED <<now, users, rooms, currentUser, userProfile, loading, authUser,
                 modal, route, roomOp, detail, pageVars>>

\* Mutant of TaskUpdate: the coins are left out of the update.
TaskUpdateTasksOnly(profile, taskId, coinsEarned) ==
  [completedTasks |-> Append1(profile.completedTasks, taskId)]

\* The fields addCompletedTask writes, computed from the profile its closure holds.
TaskUpdate(profile, taskId, coinsEarned) ==
  [completedTasks |-> Append1(profile.completedTasks, taskId),
   coins |-> profile.coins + coinsEarned]

\* Mutant of TaskIsNew: the includes check is missing.
TaskIsNewAlways(profile, taskId) == TRUE

\* The guard of addCompletedTask: FALSE where it returns without writing.
TaskIsNew(profile, taskId) == ~Includes(profile.completedTasks, taskId)

\* addCompletedTask up to `await updateDoc`.
AddCompletedTask(c, taskId, coinsEarned) ==
  /\ Len(pending[c]) < MaxPending
  /\ IF currentUser[c] # NULL /\ userProfile[c] # NullRec
       THEN /\ userProfile[c].coins + coinsEarned <= MaxCoins
            /\ IF TaskIsNew(userProfile[c], taskId)
                 THEN Suspend(c, [kind |-> "addCompletedTask",
                                  uid |-> currentUser[c],
                                  taskId |-> taskId, coinsEarned |-> coinsEarned,
                                  profile |-> userProfile[c],
                                  data |-> TaskUpdate(userProfile[c], taskId,
                                                      coinsEarned)])
                 ELSE UNCHANGED pending
       ELSE UNCHANGED pending
  /\ UNCHANGED <<now, users, rooms, currentUser, userProfile, loading, authUser,
                 modal, route, roomOp, detail, pageVars>>

\* Mutant of FriendIsNew: the includes check is missing.
FriendIsNewAlways(profile, friendId) == TRUE

\* The guard of addFriend: FALSE where it returns without writing.
FriendIsNew(profile, friendId) == ~Includes(profile.friendsList, friendId)

\* The field addFriend writes.
AddFriendUpdate(profile, friendId) ==
  [friendsList |-> Append1(profile.friendsList, friendId)]

\* addFriend up to `await updateDoc`.
AddFriend(c, friendId) ==
  /\ Len(pending[c]) < MaxPending
  /\ IF currentUser[c] # NULL /\ userProfile[c] # NullRec
         /\ FriendIsNew(userProfile[c], friendId)
       THEN Suspend(c, [kind |-> "addFriend", uid |-> currentUser[c],
                        friendId |-> friendId,
                        profile |-> userProfile[c],
                        data |-> AddFriendUpdate(userProfile[c], friendId)])
       ELSE UNCHANGED pending
  /\ UNCHANGED <<now, users, rooms, currentUser, userProfile, loading, authUser,
                 modal, route, roomOp, detail, pageVars>>

\* The field removeFriend writes.
RemoveFriendUpdate(profile, friendId) ==
  [friendsList |-> Without(profile.friendsList, friendId)]

\* removeFriend up to `await updateDoc`.
RemoveFriend(c, friendId) ==
  /\ Len(pending[c]) < MaxPending
  /\ IF currentUser[c] # NULL /\ userProfile[c] # NullRec
       THEN Suspend(c, [kind |-> "removeFriend", uid |-> currentUser[c],
                        friendId |-> friendId,
                        profile |-> userProfile[c],
                        data |-> RemoveFriendUpdate(userProfile[c], friendId)])
       ELSE UNCHANGED pending
  /\ UNCHANGED <<now, users, rooms, currentUser, userProfile, loading, authUser,
                 modal, route, roomOp, detail, pageVars>>

WriteKinds == {"updateProfile", "addCompletedTask", "addFriend", "removeFriend"}

\* The modal each handler shows in its catch block.
FailureTitle(kind) ==
  CASE kind = "updateProfile" -> "Update Failed"
    [] kind = "addCompletedTask" -> "Task Error"
    [] kind = "addFriend" -> "Friend Error"
    [] kind = "removeFriend" -> "Friend Removal Failed"

\* updateDoc resolved: the store merged the fields into the document (it
\* rejects when the document is missing); then setUserProfile(prev => ...).
WriteDone(c, i) ==
  /\ i \in 1..Len(pending[c])
  /\ pending[c][i].kind \in WriteKinds
  /\ users[pending[c][i].uid] # NullRec
  /\ users' = [users EXCEPT ![pending[c][i].uid] = Merge(@, pending[c][i].data)]
  /\ userProfile' = [userProfile EXCEPT ![c] =
                       IF @ # NullRec THEN Merge(@, pending[c][i].data) ELSE NullRec]
  /\ Resume(c, i)
  /\ UNCHANGED <<now, rooms, currentUser, loading, authUser, modal,
                 route, roomOp, detail, pageVars>>

\* Mutant of WriteFail: the catch block shows no modal.
WriteFailSilent(c, i) ==
  /\ i \in 1..Len(pending[c])
  /\ pending[c][i].kind \in WriteKinds
  /\ Resume(c, i)
  /\ UNCHANGED <<now, users, rooms, currentUser, userProfile, loading, authUser,
                 modal, route, roomOp, detail, pageVars>>

\* updateDoc rejected: the catch block.
WriteFail(c, i) ==
  /\ i \in 1..Len(pending[c])
  /\ pending[c][i].kind \in WriteKinds
  /\ ShowModal(c, FailureTitle(pending[c][i].kind))
  /\ Resume(c, i)
  /\ UNCHANGED <<now, users, rooms, currentUser, userProfile, loading, authUser,
                 route, roomOp, detail, pageVars>>


(***************************************************************************)
(* Login page: its buttons are disabled while loading                      *)
(***************************************************************************)
Passwords == {<<"p">>, <<"s", "e", "c", "r", "e", "t">>}

SetError(c, message) == error' = [error EXCEPT ![c] = message]

\* The sign-in handler of the AuthProvider is awaited inside try/catch: it
\* never rejects, so the catch block of the Login handler is not reached.
CallSignIn(c, method) ==
  /\ SetError(c, "")
  /\ SignIn(c, method)
  /\ UNCHANGED <<now, users, rooms, currentUser, userProfile, authUser, modal,
                 route, roomOp, detail, listOp, myRooms, chOp, chResult>>

\* The handler ends with a message before it calls the AuthProvider.
EndWithError(c, message) ==
  /\ SetError(c, message)
  /\ UNCHANGED <<now, users, rooms, authVars, modal, route, roomOp, detail,
                 listOp, myRooms, chOp, chResult>>

handleAnonymousLogin(c) ==
  /\ ~loading[c]
  /\ CallSignIn(c, "anonymous")

handleEmailAuth(c, isSignUp, password, confirmPassword) ==
  /\ ~loading[c]
  /\ IF isSignUp
       THEN IF password # confirmPassword
              THEN EndWithError(c, "Passwords do not match!")
            ELSE IF Len(password) < 6
              THEN EndWithError(c, "Password must be at least 6 characters long!")
            ELSE CallSignIn(c, "signup")
       ELSE CallSignIn(c, "email")

handlePhoneLogin(c, recaptchaVerifier) ==
  /\ ~loading[c]
  /\ IF ~recaptchaVerifier
       THEN EndWithError(c, "reCAPTCHA not initialized")
       ELSE CallSignIn(c, "phone")

(***************************************************************************)
(* Room detail page (pages/RoomDetail): "joining will happen in the room   *)
(* detail page".  The page is entered by navigate(`/rooms/${id}`).         *)
(***************************************************************************)
\* Mutant of JoinContract: a room that has a second player is not refused.
JoinContractNoFull(exists, roomData, uid) ==
  IF ~exists THEN "RoomNotFound"
  ELSE IF roomData.player1Id = uid \/ roomData.player2Id = uid THEN "AlreadyMember"
  ELSE "Join"

\* Mutant of JoinContract: the creator is not recognised as a member.
JoinContractNoCreator(exists, roomData, uid) ==
  IF ~exists THEN "RoomNotFound"
  ELSE IF roomData.player2Id = uid THEN "AlreadyMember"
  ELSE IF roomData.player2Id # NULL THEN "RoomFull"
  ELSE "Join"

\* joinRoom(id, joinerId) of the room repository.
JoinContract(exists, roomData, uid) ==
  IF ~exists THEN "RoomNotFound"
  ELSE IF roomData.player1Id = uid \/ roomData.player2Id = uid THEN "AlreadyMember"
  ELSE IF roomData.player2Id # NULL THEN "RoomFull"
  ELSE "Join"

\* Mutant of JoinedRoom: the room is activated but the joiner is not stored.
JoinedRoomNotStored(roomData, uid) == [roomData EXCEPT !.status = "active"]

\* The room after the joiner was admitted.
JoinedRoom(roomData, uid) == [roomData EXCEPT !.player2Id = uid]

\* The detail page on entry: it applies joinRoom(id, currentUser).

RoomDetailEnter(c) ==
  /\ detail[c] = "entering"
  /\ LET id == route[c]
         ex == RoomExists(id)
         res == JoinContract(ex, IF ex THEN rooms[id] ELSE NullRec, currentUser[c])
     IN /\ rooms' = IF res = "Join"
                      THEN [rooms EXCEPT ![id] = JoinedRoom(@, currentUser[c])]
                      ELSE rooms
        /\ detail' = [detail EXCEPT ![c] =
                        IF res \in {"Join", "AlreadyMember"} THEN "inRoom" ELSE res]
  /\ UNCHANGED <<now, users, authVars, modal, route, roomOp, pageVars>>

(***************************************************************************)
(* Room detail page: the challenge of the room shown (spec 4.2).  A        *)
(* mutation re-reads the room, checks it and writes currentChallenge in a  *)
(* second request; the store has no transaction and no version check, it   *)
(* applies the writes as they arrive (spec 5).                             *)
(***************************************************************************)
Themes == {"space"}
Terminal == {"rejected", "completed"}

Participant(roomData, uid) ==
  uid # NULL /\ (roomData.player1Id = uid \/ roomData.player2Id = uid)

OtherPlayer(roomData, uid) ==
  IF roomData.player1Id = uid THEN roomData.player2Id ELSE roomData.player1Id

\* The challenge Propose writes.
NewChallenge(themeId, taskId, self, other, t) ==
  [themeId |-> themeId, taskId |-> taskId,
   challengerId |-> self, challengedId |-> other,
   status |-> "pending", winnerId |-> NULL, suggestedAt |-> t]

\* Mutant of ProposeCheck: the current challenge is not looked at.
ProposeCheckNoCurrent(roomData, self) ==
  IF ~Participant(roomData, self) THEN "InvalidChallenger" ELSE "ok"

\* Propose: by a participant, when currentChallenge is null or terminal.
\* (The spec names no error for a challenge in progress.)
ProposeCheck(roomData, self) ==
  IF ~Participant(roomData, self) THEN "InvalidChallenger"
  ELSE IF /\ roomData.currentChallenge # NullRec
          /\ roomData.currentChallenge.status \notin Terminal
         THEN "ChallengeInProgress"
  ELSE "ok"

\* Mutant of RespondCheck: any participant of the room may answer.
RespondCheckAnyParticipant(roomData, self) ==
  IF roomData.currentChallenge = NullRec THEN "NoChallenge"
  ELSE IF ~Participant(roomData, self) THEN "Unauthorized"
  ELSE IF roomData.currentChallenge.status # "pending" THEN "InvalidTransition"
  ELSE "ok"

\* Mutant of RespondCheck: the status of the challenge is not looked at.
RespondCheckAnyStatus(roomData, self) ==
  IF roomData.currentChallenge = NullRec THEN "NoChallenge"
  ELSE IF roomData.currentChallenge.challengedId # self THEN "Unauthorized"
  ELSE "ok"

\* Accept/Reject: only challengedId, only from pending.  (The spec names no
\* error for a challenge that is absent or not pending.)
RespondCheck(roomData, self) ==
  IF roomData.currentChallenge = NullRec THEN "NoChallenge"
  ELSE IF roomData.currentChallenge.challengedId # self THEN "Unauthorized"
  ELSE IF roomData.currentChallenge.status # "pending" THEN "InvalidTransition"
  ELSE "ok"

\* Mutant of CompleteCheck: the winner is not looked at.
CompleteCheckAnyWinner(roomData, self, winner) ==
  IF roomData.currentChallenge = NullRec THEN "NoChallenge"
  ELSE IF ~Participant(roomData, self) THEN "Unauthorized"
  ELSE IF roomData.currentChallenge.status # "accepted" THEN "InvalidTransition"
  ELSE "ok"

\* Complete: from accepted, by either participant, the winner a participant.
CompleteCheck(roomData, self, winner) ==
  IF roomData.currentChallenge = NullRec THEN "NoChallenge"
  ELSE IF ~Participant(roomData, self) THEN "Unauthorized"
  ELSE IF roomData.currentChallenge.status # "accepted" THEN "InvalidTransition"
  ELSE IF ~Participant(roomData, winner) THEN "InvalidWinner"
  ELSE "ok"

\* Client c looks at a stored room on the detail page.
Viewing(c) ==
  /\ currentUser[c] # NULL
  /\ route[c] \in DOMAIN rooms
  /\ detail[c] \in {"inRoom", "RoomFull"}

\* The mutation of client c ends at its check with an error, or suspends at
\* the write of data, computed from the room it read.
CheckedThenWrite(c, check, data) ==
  IF check = "ok"
    THEN /\ chOp' = [chOp EXCEPT ![c] =
                       [kind |-> "write", id |-> route[c],
                        seen |-> rooms[route[c]].currentChallenge,
                        data |-> data]]
         /\ UNCHANGED chResult
    ELSE /\ chResult' = [chResult EXCEPT ![c] = check]
         /\ UNCHANGED chOp

\* Propose: the room was read; suggestedAt is Date.now().  The first
\* proposal in a room with both players makes the room active.
Propose(c, themeId, taskId) ==
  /\ Viewing(c)
  /\ chOp[c] = Idle
  /\ \E t \in now..MaxTime : now' = t
  /\ LET roomData == rooms[route[c]]
         self == currentUser[c]
     IN CheckedThenWrite(c, ProposeCheck(roomData, self),
          [currentChallenge |->
             NewChallenge(themeId, taskId, self, OtherPlayer(roomData, self), now'),
           status |-> IF roomData.status = "waiting" /\ roomData.player2Id # NULL
                        THEN "active" ELSE roomData.status])
  /\ UNCHANGED <<error, users, rooms, authVars, modal, route, roomOp, detail, listOp,
                 myRooms>>

\* Accept (answer = "accepted") or Reject (answer = "rejected"): the room
\* was read.
Respond(c, answer) ==
  /\ Viewing(c)
  /\ chOp[c] = Idle
  /\ LET roomData == rooms[route[c]] IN
       CheckedThenWrite(c, RespondCheck(roomData, currentUser[c]),
         [currentChallenge |->
            IF roomData.currentChallenge = NullRec THEN NullRec
            ELSE [roomData.currentChallenge EXCEPT !.status = answer]])
  /\ UNCHANGED <<error, now, users, rooms, authVars, modal, route, roomOp, detail,
                 listOp, myRooms>>

\* Complete: the room was read.
Complete(c, winner) ==
  /\ Viewing(c)
  /\ chOp[c] = Idle
  /\ LET roomData == rooms[route[c]] IN
       CheckedThenWrite(c, CompleteCheck(roomData, currentUser[c], winner),
         [currentChallenge |->
            IF roomData.currentChallenge = NullRec THEN NullRec
            ELSE [roomData.currentChallenge EXCEPT !.status = "completed",
                                                   !.winnerId = winner]])
  /\ UNCHANGED <<error, now, users, rooms, authVars, modal, route, roomOp, detail,
                 listOp, myRooms>>

\* Mutant of ChallengeWritten: the store compares the challenge with the one
\* the writer read and refuses the write when it has changed.
ChallengeWrittenIfUnchanged(c) ==
  /\ chOp[c].kind = "write"
  /\ IF rooms[chOp[c].id].currentChallenge = chOp[c].seen
       THEN /\ rooms' = [rooms EXCEPT ![chOp[c].id] = Merge(@, chOp[c].data)]
            /\ chResult' = [chResult EXCEPT ![c] = "ok"]
       ELSE /\ UNCHANGED rooms
            /\ chResult' = [chResult EXCEPT ![c] = "Conflict"]
  /\ chOp' = [chOp EXCEPT ![c] = Idle]
  /\ UNCHANGED <<error, now, users, authVars, modal, route, roomOp, detail, listOp,
                 myRooms>>

\* The store applied the write of a challenge mutation.
ChallengeWritten(c) ==
  /\ chOp[c].kind = "write"
  /\ rooms' = [rooms EXCEPT ![chOp[c].id] = Merge(@, chOp[c].data)]
  /\ chOp' = [chOp EXCEPT ![c] = Idle]
  /\ chResult' = [chResult EXCEPT ![c] = "ok"]
  /\ UNCHANGED <<error, now, users, authVars, modal, route, roomOp, detail, listOp,
                 myRooms>>

\* The store rejected the write of a challenge mutation.
ChallengeWriteFail(c) ==
  /\ chOp[c].kind = "write"
  /\ chOp' = [chOp EXCEPT ![c] = Idle]
  /\ chResult' = [chResult EXCEPT ![c] = "StoreUnavailable"]
  /\ UNCHANGED <<error, now, users, rooms, authVars, modal, route, roomOp, detail,
                 listOp, myRooms>>

(***************************************************************************)
(* SpecRooms: three signed-in clients on the rooms page                    *)
(***************************************************************************)
MaxCalls == 3        \* handler calls per behaviour

UserOf(c) == CASE c = "c1" -> "u1" [] c = "c2" -> "u2" [] c = "c3" -> "u3"

EmptyRooms == [id \in {} |-> NullRec]

\* Every client is signed in, its profile loaded, on the rooms page.
AllSignedIn ==
  /\ now = 0
  /\ users = [u \in Users |-> NewProfile("0", 1)]
  /\ rooms = EmptyRooms
  /\ currentUser = [c \in Clients |-> UserOf(c)]
  /\ authUser = [c \in Clients |-> UserOf(c)]
  /\ userProfile = [c \in Clients |-> NewProfile("0", 1)]
  /\ loading = [c \in Clients |-> FALSE]
  /\ pending = [c \in Clients |-> <<>>]
  /\ modal = [c \in Clients |-> "none"]
  /\ route = [c \in Clients |-> <<>>]
  /\ roomOp = [c \in Clients |-> Idle]
  /\ detail = [c \in Clients |-> "none"]
  /\ listOp = [c \in Clients |-> Idle]
  /\ myRooms = [c \in Clients |-> <<>>]
  /\ chOp = [c \in Clients |-> Idle]
  /\ chResult = [c \in Clients |-> "none"]
  /\ error = [c \in Clients |-> ""]

InitRooms == AllSignedIn /\ sc = [calls |-> 0]

\* A call that got past the early returns of its handler counts.
Called == /\ sc.calls < MaxCalls
          /\ sc' = [sc EXCEPT !.calls = IF roomOp' # roomOp THEN @ + 1 ELSE @]

NextRooms ==
  \/ \E c \in Clients : CreateRoom(c) /\ Called
  \/ \E c \in Clients : CreateRoomDone(c) /\ UNCHANGED sc
  \/ \E c \in Clients : CreateRoomFail(c) /\ UNCHANGED sc
  \/ \E c \in Clients, input \in JoinInputs : JoinRoom(c, input) /\ Called
  \/ \E c \in Clients : JoinRoomRead(c) /\ UNCHANGED sc
  \/ \E c \in Clients : JoinRoomFail(c) /\ UNCHANGED sc
  \/ \E c \in Clients : RoomDetailEnter(c) /\ UNCHANGED sc

SpecRooms == InitRooms /\ [][NextRooms]_vars


(***************************************************************************)
(* Claims on the rooms (checked under SpecRooms)                           *)
(***************************************************************************)
IsMember(roomData, uid) == roomData.player1Id = uid \/ roomData.player2Id = uid

\* The step in which createRoom of client c returns from addDoc and navigates.
CreateSucceeded(c) ==
  /\ roomOp[c].kind = "create"
  /\ roomOp'[c] = Idle
  /\ route'[c] # route[c]

\* The step in which joinRoom of client c gets the snapshot of the room.
JoinAnswered(c) ==
  /\ roomOp[c].kind = "join"
  /\ roomOp'[c] = Idle
  /\ ~(modal'[c] = "Room Join Failed" /\ route'[c] = route[c])

\* The step in which the room detail page of client c handles the room shown.
DetailEntered(c) ==
  /\ detail[c] = "entering"
  /\ detail'[c] # "entering"

\* C1: when createRoom of a signed-in user succeeds, the store holds one new
\* room, with player1Id the creator, player2Id null, status "waiting", no
\* messages and no challenge, and every room stored before is unmodified.
C1_CreateRoomInsertsWaitingRoom ==
  [][\A c \in Clients :
       CreateSucceeded(c) =>
         LET id == route'[c] IN
           /\ id \notin DOMAIN rooms
           /\ DOMAIN rooms' = DOMAIN rooms \cup {id}
           /\ rooms'[id].player1Id = currentUser[c]
           /\ rooms'[id].player2Id = NULL
           /\ rooms'[id].status = "waiting"
           /\ rooms'[id].messages = <<>>
           /\ rooms'[id].currentChallenge = NullRec
           /\ \A r \in DOMAIN rooms : rooms'[r] = rooms[r]]_vars

\* Two rooms are stored, the second created by a client that now shows it,
\* while the first already had a second player.
C1_Witness ==
  \E c \in Clients :
    /\ route[c] \in DOMAIN rooms
    /\ rooms[route[c]].player1Id = currentUser[c]
    /\ rooms[route[c]].player2Id = NULL
    /\ \E r \in DOMAIN rooms \ {route[c]} : rooms[r].player2Id # NULL

\* C2: joining an existing room that has no second player, by a user who is
\* not its creator, is let through by joinRoom (it navigates to the room) and
\* the room detail page then stores the joiner as player2Id.
C2_JoinSetsPlayer2 ==
  [][\A c \in Clients :
       /\ (/\ JoinAnswered(c)
           /\ RoomExists(roomOp[c].id)
           /\ rooms[roomOp[c].id].player2Id = NULL
           /\ rooms[roomOp[c].id].player1Id # roomOp[c].uid)
          => (route'[c] = roomOp[c].id /\ detail'[c] = "entering")
       /\ (/\ DetailEntered(c)
           /\ RoomExists(route[c])
           /\ rooms[route[c]].player2Id = NULL
           /\ rooms[route[c]].player1Id # currentUser[c])
          => rooms'[route[c]].player2Id = currentUser[c]]_vars

\* A client that is not the creator is in a room as its second player.
C2_Witness ==
  \E c \in Clients :
    /\ detail[c] = "inRoom"
    /\ rooms[route[c]].player2Id = currentUser[c]
    /\ rooms[route[c]].player1Id # currentUser[c]

\* C3: joinRoom is idempotent: a join by a user who is already player1Id or
\* player2Id changes no room, and a join that changed the room left the user
\* a member of it, so that a second join with the same id changes nothing.
C3_JoinIdempotent ==
  [][\A c \in Clients :
       /\ JoinAnswered(c) => rooms' = rooms
       /\ DetailEntered(c) =>
            /\ DOMAIN rooms' = DOMAIN rooms
            /\ (RoomExists(route[c]) /\ IsMember(rooms[route[c]], currentUser[c]))
                 => rooms' = rooms
            /\ rooms' # rooms => IsMember(rooms'[route[c]], currentUser[c])]_vars

\* A creator is back in the older of two rooms it created: after creating
\* the newer one it can only have come back through joinRoom as a member.
C3_Witness ==
  \E c \in Clients, r \in DOMAIN rooms :
    /\ route[c] \in DOMAIN rooms
    /\ detail[c] = "inRoom"
    /\ rooms[route[c]].player1Id = currentUser[c]
    /\ rooms[r].player1Id = currentUser[c]
    /\ rooms[route[c]].createdAt < rooms[r].createdAt

\* C4: a join by a user who is neither player of a room that has a second
\* player fails with "Room is Full" (RoomFull on the detail page), does not
\* navigate into the room and leaves every room unchanged.
C4_JoinFullRoomRejected ==
  [][\A c \in Clients :
       /\ (/\ JoinAnswered(c)
           /\ RoomExists(roomOp[c].id)
           /\ rooms[roomOp[c].id].player2Id # NULL
           /\ ~IsMember(rooms[roomOp[c].id], roomOp[c].uid))
          => /\ modal'[c] = "Room is Full"
             /\ route'[c] = route[c]
             /\ detail'[c] = detail[c]
             /\ rooms' = rooms
       /\ (/\ DetailEntered(c)
           /\ RoomExists(route[c])
           /\ rooms[route[c]].player2Id # NULL
           /\ ~IsMember(rooms[route[c]], currentUser[c]))
          => /\ detail'[c] = "RoomFull"
             /\ rooms' = rooms]_vars

\* A third user was told that a room with two players is full.
C4_Witness ==
  \E c \in Clients, r \in DOMAIN rooms :
    /\ modal[c] = "Room is Full"
    /\ rooms[r].player2Id # NULL
    /\ ~IsMember(rooms[r], currentUser[c])
    /\ route[c] # r

\* C5: a join with an id no room has fails with "Room Not Found", creates no
\* room, modifies no room and does not navigate.
C5_JoinMissingRoomNotFound ==
  [][\A c \in Clients :
       (JoinAnswered(c) /\ ~RoomExists(roomOp[c].id))
         => /\ modal'[c] = "Room Not Found"
            /\ rooms' = rooms
            /\ route'[c] = route[c]
            /\ detail'[c] = detail[c]]_vars

\* A client was told that the room does not exist while rooms are stored.
C5_Witness ==
  \E c \in Clients :
    /\ modal[c] = "Room Not Found"
    /\ roomOp[c] = Idle
    /\ DOMAIN rooms # {}


\* C16: the player1Id of a room is the creator from the step that stores the
\* room, and no step changes the player1Id of a stored room or removes the
\* room.
C16_Player1IsCreatorForEver ==
  [][/\ \A c \in Clients :
          CreateSucceeded(c) => rooms'[route'[c]].player1Id = currentUser[c]
     /\ \A r \in DOMAIN rooms :
          /\ r \in DOMAIN rooms'
          /\ rooms'[r].player1Id = rooms[r].player1Id]_vars

\* A room got its second player, and its creator, who created another room
\* since, is still its player1Id.
C16_Witness ==
  \E r, r2 \in DOMAIN rooms, c \in Clients :
    /\ r # r2
    /\ rooms[r].player1Id = currentUser[c]
    /\ rooms[r2].player1Id = currentUser[c]
    /\ rooms[r].player2Id \notin {NULL, currentUser[c]}
    /\ route[c] = r2

MaxListCalls == 4    \* handler calls per behaviour

ListClients == {"c1", "c2"}
Listers == {"c1"}    \* fetchRooms writes nothing: one client listing is enough

InitList ==
  /\ AllSignedIn
  /\ sc = [calls |-> 0,
           q1 |-> [c \in Clients |-> {}],
           q2 |-> [c \in Clients |-> {}],
           listed |-> [c \in Clients |-> FALSE]]

CalledList ==
  /\ sc.calls < MaxListCalls
  /\ sc' = [sc EXCEPT !.calls = IF roomOp' # roomOp \/ listOp' # listOp
                                  THEN @ + 1 ELSE @]

\* fetchRooms of client c starts: nothing is known of its listing.
ListStarts(c) ==
  /\ sc.calls < MaxListCalls
  /\ sc' = [sc EXCEPT !.calls = IF listOp' # listOp THEN @ + 1 ELSE @,
                      !.q1[c] = {}, !.q2[c] = {},
                      !.listed[c] = FALSE]

\* A query of client c is answered: the rooms the store holds for it now.
ListAnswered(c, q) ==
  sc' = [sc EXCEPT !.q1[c] = IF q = 1 THEN Matching("player1Id", listOp[c].uid) ELSE @,
                   !.q2[c] = IF q = 2 THEN Matching("player2Id", listOp[c].uid) ELSE @,
                   !.listed[c] = (listOp'[c] = Idle)]

\* fetchRooms of client c went on after a getDoc; it may have set myRooms.
ListWentOn(c) == sc' = [sc EXCEPT !.listed[c] = (listOp'[c] = Idle)]

NextList ==
  \/ \E c \in ListClients : CreateRoom(c) /\ CalledList
  \/ \E c \in ListClients : CreateRoomDone(c) /\ UNCHANGED sc
  \/ \E c \in ListClients, id \in RoomIds : JoinRoom(c, id) /\ CalledList
  \/ \E c \in ListClients : JoinRoomRead(c) /\ UNCHANGED sc
  \/ \E c \in ListClients : RoomDetailEnter(c) /\ UNCHANGED sc
  \/ \E c \in Listers : FetchRooms(c) /\ ListStarts(c)
  \/ \E c \in Listers : ListQuery1(c) /\ ListAnswered(c, 1)
  \/ \E c \in Listers : ListQuery2(c) /\ ListAnswered(c, 2)
  \/ \E c \in Listers, answered \in BOOLEAN :
       ListName(c, answered) /\ ListWentOn(c)
  \/ \E c \in Listers : ListFail(c) /\ UNCHANGED sc

SpecList == InitList /\ [][NextList]_vars

\* the ids of the rows of a listing
RowIds(list) == {list[i].id : i \in 1..Len(list)}

\* C15: the listing fetchRooms computes for a user holds exactly the rooms
\* the store held for that user when its queries were answered (the rooms
\* whose player1Id is the user, and those whose player2Id is the user), each
\* row with the createdAt of its room, ordered by createdAt descending; these
\* rooms still are rooms of the user in the store.
C15_ListingIsUsersRoomsNewestFirst ==
  \A c \in Clients :
    sc.listed[c] =>
      /\ RowIds(myRooms[c]) = sc.q1[c] \cup sc.q2[c]
      /\ \A i \in 1..Len(myRooms[c]) :
           /\ myRooms[c][i].id \in DOMAIN rooms
           /\ IsMember(rooms[myRooms[c][i].id], currentUser[c])
           /\ myRooms[c][i].createdAt = rooms[myRooms[c][i].id].createdAt
      /\ \A i \in 1..Len(myRooms[c]) - 1 :
           myRooms[c][i].createdAt >= myRooms[c][i + 1].createdAt

\* A listing of two rooms: the one the user created, found by the first
\* query, is older than the one it joined, found by the second, so that
\* the sort has put the second before the first.
C15_Witness ==
  \E c \in Clients :
    /\ sc.listed[c]
    /\ Len(myRooms[c]) = 2
    /\ myRooms[c][1].player2Id = currentUser[c]
    /\ myRooms[c][2].player1Id = currentUser[c]
    /\ myRooms[c][1].createdAt > myRooms[c][2].createdAt

\* C30: the listing fetchRooms computes holds each room id at most once, in
\* every store state createRoom and joinRoom lead to: no two rows of
\* myRooms, and no two rows a running fetchRooms has collected, have the
\* same id.
C30_ListingHasNoRoomTwice ==
  \A c \in Clients :
    /\ \A i, j \in 1..Len(myRooms[c]) :
         i # j => myRooms[c][i].id # myRooms[c][j].id
    /\ listOp[c] # Idle =>
         \A i, j \in 1..Len(listOp[c].rows) :
           i # j => listOp[c].rows[i].id # listOp[c].rows[j].id

\* A listing of two rooms: the newer one was created by the user (found by
\* the query on player1Id), the older one was joined by the user (found by
\* the query on player2Id).
C30_Witness ==
  \E c \in Clients :
    /\ sc.listed[c]
    /\ Len(myRooms[c]) = 2
    /\ myRooms[c][1].player1Id = currentUser[c]
    /\ myRooms[c][2].player2Id = currentUser[c]
    /\ myRooms[c][1].id # myRooms[c][2].id

(***************************************************************************)
(* SpecChallenge: a room with both players; the two players and a user who *)
(* was refused as the room was full look at it on the detail page.  sc     *)
(* records the last call (and the winner a Complete named).                *)
(***************************************************************************)
MaxChCalls == 5      \* challenge mutations called per behaviour

TheRoom == <<"r", IdChars[1]>>
Answers == {"accepted", "rejected"}
NoCall == [c |-> "none", op |-> "none", winner |-> NULL]

InitChallenge ==
  /\ now = 0
  /\ users = [u \in Users |-> NewProfile("0", 1)]
  /\ rooms = (TheRoom :> JoinedRoom(NewRoom("u1", 0), "u2"))
  /\ currentUser = [c \in Clients |-> UserOf(c)]
  /\ authUser = [c \in Clients |-> UserOf(c)]
  /\ userProfile = [c \in Clients |-> NewProfile("0", 1)]
  /\ loading = [c \in Clients |-> FALSE]
  /\ pending = [c \in Clients |-> <<>>]
  /\ modal = [c \in Clients |-> "none"]
  /\ route = [c \in Clients |-> TheRoom]
  /\ roomOp = [c \in Clients |-> Idle]
  /\ detail = [c \in Clients |-> IF c = "c3" THEN "RoomFull" ELSE "inRoom"]
  /\ listOp = [c \in Clients |-> Idle]
  /\ myRooms = [c \in Clients |-> <<>>]
  /\ chOp = [c \in Clients |-> Idle]
  /\ chResult = [c \in Clients |-> "none"]
  /\ error = [c \in Clients |-> ""]
  /\ sc = [calls |-> 0, last |-> NoCall]

ChCalledWith(c, op, winner) ==
  /\ sc.calls < MaxChCalls
  /\ sc' = [calls |-> sc.calls + 1,
            last |-> [c |-> c, op |-> op, winner |-> winner]]

ChCalled(c, op) == ChCalledWith(c, op, NULL)

ChAnswered == sc' = [sc EXCEPT !.last = NoCall]

NextChallenge ==
  \/ \E c \in Clients, themeId \in Themes, taskId \in Tasks :
       Propose(c, themeId, taskId) /\ ChCalled(c, "propose")
  \/ \E c \in Clients, answer \in Answers :
       Respond(c, answer) /\ ChCalled(c, "respond")
  \/ \E c \in Clients, winner \in Users :
       Complete(c, winner) /\ ChCalledWith(c, "complete", winner)
  \/ \E c \in Clients : ChallengeWritten(c) /\ ChAnswered
  \/ \E c \in Clients : ChallengeWriteFail(c) /\ ChAnswered

SpecChallenge == InitChallenge /\ [][NextChallenge]_vars

(***************************************************************************)
(* Claims on the challenge (checked under SpecChallenge)                   *)
(***************************************************************************)
StatusOf(challenge) == IF challenge = NullRec THEN "none" ELSE challenge.status

\* pending -> accepted, pending -> rejected, accepted -> completed, and a
\* new challenge (pending) in the place of none or of a terminal one
AllowedMoves ==
  {<<"pending", "accepted">>, <<"pending", "rejected">>,
   <<"accepted", "completed">>,
   <<"none", "pending">>, <<"rejected", "pending">>, <<"completed", "pending">>}

\* The step in which client c calls the mutation op.
ChCall(c, op) ==
  /\ sc'.calls = sc.calls + 1
  /\ sc'.last.c = c
  /\ sc'.last.op = op

\* The step in which the store applies the write of client c.
ChWrittenBy(c) ==
  /\ chOp[c].kind = "write"
  /\ chOp'[c] = Idle
  /\ chResult'[c] = "ok"

\* C18 as stated: whenever the status of the currentChallenge of a room
\* changes, it moves pending -> accepted, pending -> rejected or accepted ->
\* completed, or a new pending challenge takes the place of none or of a
\* rejected or completed one; no other change of status happens.
C18_OnlyAllowedStatusMoves ==
  [][\A r \in DOMAIN rooms :
       StatusOf(rooms'[r].currentChallenge) # StatusOf(rooms[r].currentChallenge)
         => <<StatusOf(rooms[r].currentChallenge),
              StatusOf(rooms'[r].currentChallenge)>> \in AllowedMoves]_vars

\* C18 amended: every mutation is issued on an allowed move of the challenge
\* it read, and when its write is applied to the challenge it read (no other
\* write to the room's challenge came in between) the status changes by that
\* allowed move and by nothing else.
C18_AllowedMovesOfTheChallengeRead ==
  [][\A c \in Clients :
       /\ (chOp[c] = Idle /\ chOp'[c] # Idle) =>
            <<StatusOf(chOp'[c].seen), StatusOf(chOp'[c].data.currentChallenge)>>
              \in AllowedMoves
       /\ (ChWrittenBy(c) /\ chOp[c].seen = rooms[chOp[c].id].currentChallenge) =>
            /\ <<StatusOf(rooms[chOp[c].id].currentChallenge),
                 StatusOf(rooms'[chOp[c].id].currentChallenge)>> \in AllowedMoves
            /\ rooms'[chOp[c].id].currentChallenge = chOp[c].data.currentChallenge]_vars

\* A challenge was proposed, accepted and completed with a winner, and a
\* mutation that is no allowed move from completed was refused.
C18_Witness ==
  /\ StatusOf(rooms[TheRoom].currentChallenge) = "completed"
  /\ rooms[TheRoom].currentChallenge.winnerId # NULL
  /\ \E c \in Clients : chResult[c] = "InvalidTransition"
  /\ \A c \in Clients : chOp[c] = Idle

\* C19: an accept or reject called by any identifier other than the
\* challengedId of the room's challenge (the challenger, a third user) ends
\* with Unauthorized, issues no write and leaves the room unchanged; and the
\* challenge a write leaves accepted or rejected where a pending one was
\* has the writer as its challengedId.
C19_OnlyChallengedAnswers ==
  [][\A c \in Clients :
       /\ (/\ ChCall(c, "respond")
           /\ rooms[route[c]].currentChallenge # NullRec
           /\ rooms[route[c]].currentChallenge.challengedId # currentUser[c])
          => /\ chResult'[c] = "Unauthorized"
             /\ chOp'[c] = Idle
             /\ rooms' = rooms
       /\ (/\ ChWrittenBy(c)
           /\ StatusOf(rooms[chOp[c].id].currentChallenge) = "pending"
           /\ StatusOf(rooms'[chOp[c].id].currentChallenge) \in Answers)
          => currentUser[c] = rooms'[chOp[c].id].currentChallenge.challengedId]_vars

\* The challenger tried to answer its own challenge and was refused; the
\* challenged user then accepted it.
C19_Witness ==
  \E c \in Clients :
    /\ chResult[c] = "Unauthorized"
    /\ StatusOf(rooms[TheRoom].currentChallenge) = "accepted"
    /\ rooms[TheRoom].currentChallenge.challengerId = currentUser[c]

\* C20 as stated: a proposal takes effect only where the currentChallenge
\* of the room is absent or completed: no write of a new challenge replaces
\* a pending, accepted or rejected one.
C20_ProposalOnlyAfterCompleted ==
  [][\A c \in Clients :
       (/\ ChWrittenBy(c)
        /\ StatusOf(chOp[c].data.currentChallenge) = "pending")
       => StatusOf(rooms[chOp[c].id].currentChallenge) \in {"none", "completed"}]_vars

\* C20 amended: a proposal that reads a pending or accepted challenge ends
\* with an error, issues no write and leaves the room unchanged; a proposal
\* is issued only on a room whose currentChallenge is absent, rejected or
\* completed, and when its write is applied to the challenge it read, the
\* new challenge replaces an absent, rejected or completed one.
C20_ProposalOnlyAfterTerminal ==
  [][\A c \in Clients :
       /\ (/\ ChCall(c, "propose")
           /\ StatusOf(rooms[route[c]].currentChallenge) \in {"pending", "accepted"})
          => /\ chResult'[c] \in {"ChallengeInProgress", "InvalidChallenger"}
             /\ chOp'[c] = Idle
             /\ rooms' = rooms
       /\ (/\ chOp[c] = Idle /\ chOp'[c] # Idle
           /\ StatusOf(chOp'[c].data.currentChallenge) = "pending")
          => StatusOf(rooms[route[c]].currentChallenge)
               \in {"none", "rejected", "completed"}
       /\ (/\ ChWrittenBy(c)
           /\ StatusOf(chOp[c].data.currentChallenge) = "pending"
           /\ chOp[c].seen = rooms[chOp[c].id].currentChallenge)
          => StatusOf(rooms[chOp[c].id].currentChallenge)
               \in {"none", "rejected", "completed"}]_vars

\* A second challenge is pending in the place of a rejected one, and a
\* proposal made while it was pending was refused.
C20_Witness ==
  /\ StatusOf(rooms[TheRoom].currentChallenge) = "pending"
  /\ rooms[TheRoom].currentChallenge.taskId = "t2"
  /\ \E c \in Clients :
       /\ chResult[c] = "ChallengeInProgress"
       /\ rooms[TheRoom].currentChallenge.challengedId = currentUser[c]
  /\ \E c \in Clients : chResult[c] = "ok" /\ chOp[c] = Idle
  /\ sc.calls >= 4

\* C21: in every reachable state of a room, a winnerId that is set equals
\* the challengerId or the challengedId of the challenge; a Complete that
\* names a user who is no participant of the room never issues a write and
\* leaves the room unchanged, and it ends with InvalidWinner when it is
\* called by a participant on an accepted challenge.
C21_WinnerIsParticipant ==
  /\ [](\A r \in DOMAIN rooms :
          LET ch == rooms[r].currentChallenge IN
            (ch # NullRec /\ ch.winnerId # NULL)
              => ch.winnerId \in {ch.challengerId, ch.challengedId})
  /\ [][\A c \in Clients :
          (/\ ChCall(c, "complete")
           /\ ~Participant(rooms[route[c]], sc'.last.winner))
          => /\ chOp'[c] = Idle
             /\ chResult'[c] \notin {"ok", "none"}
             /\ rooms' = rooms
             /\ (/\ Participant(rooms[route[c]], currentUser[c])
                 /\ StatusOf(rooms[route[c]].currentChallenge) = "accepted")
                => chResult'[c] = "InvalidWinner"]_vars

\* A Complete that named the user who is no player of the room was refused
\* with InvalidWinner, and the challenge was then completed with the
\* challenged player as the winner.
C21_Witness ==
  /\ StatusOf(rooms[TheRoom].currentChallenge) = "completed"
  /\ rooms[TheRoom].currentChallenge.winnerId
       = rooms[TheRoom].currentChallenge.challengedId
  /\ \E c \in Clients : chResult[c] = "InvalidWinner"

\* C22: the store applies the writes of challenge mutations as they arrive,
\* with no version check: whenever the store answers the write of a
\* mutation, the currentChallenge of the room becomes what the writer sent,
\* whatever the room holds by then (also a challenge another participant
\* wrote after the writer's read), the writer gets no error and no other
\* caller is told anything.
C22_LastWriterWins ==
  [][\A c \in Clients :
       (/\ chOp[c].kind = "write"
        /\ chOp'[c] = Idle
        /\ chResult'[c] # "StoreUnavailable")
       => /\ chResult'[c] = "ok"
          /\ rooms'[chOp[c].id].currentChallenge = chOp[c].data.currentChallenge
          /\ \A d \in Clients \ {c} :
               chResult'[d] = chResult[d] /\ chOp'[d] = chOp[d]]_vars

\* Two calls were made, both were answered without an error, and a pending
\* challenge is stored: both players proposed on the room without a
\* challenge (a proposal made after the other was stored is refused), and
\* the proposal of the one was overwritten by that of the other.
C22_Witness ==
  /\ sc.calls = 2
  /\ \A c \in Clients : chOp[c] = Idle
  /\ \E c, d \in Clients :
       /\ c # d
       /\ chResult[c] = "ok"
       /\ chResult[d] = "ok"
       /\ StatusOf(rooms[TheRoom].currentChallenge) = "pending"
       /\ rooms[TheRoom].currentChallenge.challengerId = currentUser[d]
       /\ rooms[TheRoom].currentChallenge.challengedId = currentUser[c]

(***************************************************************************)
(* SpecAuth: one AuthProvider session, from its construction               *)
(***************************************************************************)
MaxAuthCalls == 4    \* auth events and handler calls per behaviour

AuthClients == {"c1"}
AuthUsers == {"u1"}
FriendIds == {"u1", "u2"}         \* friendId: the user's own id and another

InitAuth ==
  /\ now = 0
  /\ users = [u \in Users |-> NullRec]
  /\ rooms = EmptyRooms
  /\ currentUser = [c \in Clients |-> NULL]
  /\ authUser = [c \in Clients |-> "init"]
  /\ userProfile = [c \in Clients |-> NullRec]
  /\ loading = [c \in Clients |-> TRUE]
  /\ pending = [c \in Clients |-> <<>>]
  /\ modal = [c \in Clients |-> "none"]
  /\ route = [c \in Clients |-> <<>>]
  /\ roomOp = [c \in Clients |-> Idle]
  /\ detail = [c \in Clients |-> "none"]
  /\ listOp = [c \in Clients |-> Idle]
  /\ myRooms = [c \in Clients |-> <<>>]
  /\ chOp = [c \in Clients |-> Idle]
  /\ chResult = [c \in Clients |-> "none"]
  /\ error = [c \in Clients |-> ""]
  /\ sc = [calls |-> 0]

\* Auth events and the calls that got past the early returns of their
\* handler count.
CalledAuth == /\ sc.calls < MaxAuthCalls
              /\ sc' = [sc EXCEPT !.calls =
                          IF pending' # pending \/ authUser' # authUser
                            THEN @ + 1 ELSE @]

NextAuth ==
  \/ \E c \in AuthClients, u \in AuthUsers \cup {NULL} :
       AuthStateChanged(c, u) /\ CalledAuth
  \/ \E c \in AuthClients, i \in 1..MaxPending + 1 : FetchFound(c, i) /\ UNCHANGED sc
  \/ \E c \in AuthClients, i \in 1..MaxPending + 1, suffix \in NameSuffixes,
        pick \in AvatarPicks : FetchMissing(c, i, suffix, pick) /\ UNCHANGED sc
  \/ \E c \in AuthClients, i \in 1..MaxPending + 1 : FetchCreated(c, i) /\ UNCHANGED sc
  \/ \E c \in AuthClients, i \in 1..MaxPending + 1 : FetchFail(c, i) /\ UNCHANGED sc
  \/ \E c \in AuthClients, data \in ProfileEdits : UpdateProfile(c, data) /\ CalledAuth
  \/ \E c \in AuthClients, t \in Tasks, n \in Rewards :
       AddCompletedTask(c, t, n) /\ CalledAuth
  \/ \E c \in AuthClients, f \in FriendIds : AddFriend(c, f) /\ CalledAuth
  \/ \E c \in AuthClients, f \in FriendIds : RemoveFriend(c, f) /\ CalledAuth
  \/ \E c \in AuthClients, i \in 1..MaxPending + 1 : WriteDone(c, i) /\ UNCHANGED sc
  \/ \E c \in AuthClients, i \in 1..MaxPending + 1 : WriteFail(c, i) /\ UNCHANGED sc

SpecAuth == InitAuth /\ [][NextAuth]_vars


(***************************************************************************)
(* Claims on the profile (checked under SpecAuth)                          *)
(***************************************************************************)
\* The step in which the i-th suspended handler of client c resumes.
Resumed(c, i) ==
  /\ i \in 1..Len(pending[c])
  /\ pending'[c] = RemoveAt(pending[c], i)

\* C7: addCompletedTask writes the appended task id and the incremented coins
\* in one store update: the step that stores the task also stores the coins,
\* so no store state has the one without the other.
C7_TaskAndCoinsInOneUpdate ==
  [][\A c \in Clients, i \in 1..MaxPending + 1 :
       (/\ Resumed(c, i)
        /\ pending[c][i].kind = "addCompletedTask"
        /\ users' # users)
       => LET op == pending[c][i] IN
            /\ users'[op.uid].completedTasks
                 = Append(op.profile.completedTasks, op.taskId)
            /\ users'[op.uid].coins = op.profile.coins + op.coinsEarned
            /\ \A u \in Users \ {op.uid} : users'[u] = users[u]]_vars

\* Two tasks are stored with the coins of both.
C7_Witness ==
  /\ users["u1"] # NullRec
  /\ users["u1"].completedTasks = <<"t1", "t2">>
  /\ users["u1"].coins = 3
  /\ userProfile["c1"] = users["u1"]
  /\ pending["c1"] = <<>>

\* C9: addFriend of an identifier already in friendsList and removeFriend of
\* an identifier not in friendsList are silent no-ops: when such a call ends,
\* the stored and the cached friendsList are what they were and no error
\* modal was shown.
C9_FriendNoOpsAreSilent ==
  [][\A c \in Clients, i \in 1..MaxPending + 1 :
       (/\ Resumed(c, i)
        /\ \/ /\ pending[c][i].kind = "addFriend"
              /\ Includes(pending[c][i].profile.friendsList, pending[c][i].friendId)
           \/ /\ pending[c][i].kind = "removeFriend"
              /\ ~Includes(pending[c][i].profile.friendsList, pending[c][i].friendId))
       => /\ users' = users
          /\ userProfile'[c] = userProfile[c]
          /\ modal'[c] = modal[c]]_vars

\* C10: no stored friendsList contains the identifier of its own user.
C10_NoSelfInFriendsList ==
  \A u \in Users :
    users[u] # NullRec => ~Includes(users[u].friendsList, u)

\* no identifier occurs twice in list
NoDuplicates(list) ==
  \A i, j \in 1..Len(list) : i # j => list[i] # list[j]

\* C11: in every reachable state, completedTasks and friendsList of every
\* stored profile and of every cached profile hold no identifier twice,
\* whatever the order and interleaving of addCompletedTask, addFriend and
\* removeFriend calls on a freshly created profile.
C11_NoDuplicateIds ==
  /\ \A u \in Users :
       users[u] # NullRec =>
         /\ NoDuplicates(users[u].completedTasks)
         /\ NoDuplicates(users[u].friendsList)
  /\ \A c \in Clients :
       userProfile[c] # NullRec =>
         /\ NoDuplicates(userProfile[c].completedTasks)
         /\ NoDuplicates(userProfile[c].friendsList)

\* Two addFriend calls for the same friend were started from the same
\* cached profile; one has stored the friend, the other is still in flight.
C11_Witness ==
  /\ users["u1"] # NullRec
  /\ users["u1"].friendsList = <<"u2">>
  /\ userProfile["c1"] # NullRec
  /\ userProfile["c1"].friendsList = <<"u2">>
  /\ \E i \in 1..Len(pending["c1"]) :
       /\ pending["c1"][i].kind = "addFriend"
       /\ pending["c1"][i].friendId = "u2"
       /\ pending["c1"][i].profile.friendsList = <<>>

\* C12: the stored coins of a profile are never negative and no step makes
\* them smaller than they were.
C12_CoinsNeverDecrease ==
  /\ [](\A u \in Users : users[u] # NullRec => users[u].coins >= 0)
  /\ [][\A u \in Users :
          users[u] # NullRec =>
            /\ users'[u] # NullRec
            /\ users'[u].coins >= users[u].coins]_vars

\* doc after exactly the fields of data were set to the values data gives
ChangedExactly(before, after, data) ==
  /\ DOMAIN after = DOMAIN before
  /\ \A f \in DOMAIN before :
       after[f] = IF f \in DOMAIN data THEN data[f] ELSE before[f]

\* C13: when updateProfile(data) ends, either its write failed and nothing
\* was changed, or the stored profile of the caller and the cached profile
\* have exactly the fields of data set to the given values, every other
\* field, every other stored profile and every other cache being as before.
C13_UpdateProfileFrame ==
  [][\A c \in Clients, i \in 1..MaxPending + 1 :
       (Resumed(c, i) /\ pending[c][i].kind = "updateProfile")
       => LET uid == pending[c][i].uid
              data == pending[c][i].data
          IN \/ /\ users' = users
                /\ userProfile' = userProfile
                /\ modal'[c] = "Update Failed"
             \/ /\ users[uid] # NullRec
                /\ ChangedExactly(users[uid], users'[uid], data)
                /\ \A u \in Users \ {uid} : users'[u] = users[u]
                /\ IF userProfile[c] = NullRec
                     THEN userProfile'[c] = NullRec
                     ELSE ChangedExactly(userProfile[c], userProfile'[c], data)
                /\ \A d \in Clients \ {c} : userProfile'[d] = userProfile[d]]_vars

\* A profile that had earned coins and a completed task was renamed and
\* given a new avatar; coins and tasks are still there.
C13_Witness ==
  /\ users["u1"] # NullRec
  /\ users["u1"].username = <<"Hero">>
  /\ users["u1"].avatarUrl = 6
  /\ users["u1"].coins > 0
  /\ users["u1"].completedTasks # <<>>
  /\ userProfile["c1"] = users["u1"]
  /\ pending["c1"] = <<>>

\* C14: default-profile creation writes only where no profile is stored: the
\* step in which the setDoc of fetchUserProfile is applied never replaces a
\* stored profile.
C14_DefaultProfileOnlyWhenMissing ==
  [][\A c \in Clients, i \in 1..MaxPending + 1 :
       (/\ Resumed(c, i)
        /\ pending[c][i].kind = "setProfile"
        /\ users[pending[c][i].uid] # NullRec)
       => users'[pending[c][i].uid] = users[pending[c][i].uid]]_vars

\* C23: no store failure is swallowed silently.  When the updateDoc of
\* updateProfile, addCompletedTask, addFriend or removeFriend ends, either
\* the update was stored, or the error modal of the handler is shown and the
\* cached and the stored profiles are left as they were; when the getDoc or
\* the setDoc of fetchUserProfile ends, either the profile read or created
\* is cached, or the modal "Oops!" is shown and the cached and the stored
\* profiles are left as they were.  (The step that calls a handler changes
\* neither, so a failed call leaves the cache as it found it.)
C23_StoreFailureShowsModal ==
  [][\A c \in Clients, i \in 1..MaxPending + 1 :
       Resumed(c, i) =>
         LET op == pending[c][i]
             failed(title) == /\ modal'[c] = title
                              /\ userProfile' = userProfile
                              /\ users' = users
         IN CASE op.kind \in WriteKinds ->
                   \/ failed(FailureTitle(op.kind))
                   \/ /\ users[op.uid] # NullRec
                      /\ users'[op.uid] = Merge(users[op.uid], op.data)
              [] op.kind = "getProfile" ->
                   \/ failed("Oops!")
                   \/ /\ users[op.uid] # NullRec
                      /\ userProfile'[c] = users[op.uid]
              [] op.kind = "setProfile" ->
                   \/ failed("Oops!")
                   \/ /\ users'[op.uid] = op.newProfile
                      /\ userProfile'[c] = op.newProfile]_vars

\* The write of addCompletedTask failed after the profile had been renamed:
\* the modal is shown, no task and no coins are stored or cached, and the
\* cache still is the stored profile.
C23_Witness ==
  /\ modal["c1"] = "Task Error"
  /\ pending["c1"] = <<>>
  /\ userProfile["c1"] # NullRec
  /\ userProfile["c1"] = users["u1"]
  /\ userProfile["c1"].username = <<"Hero">>
  /\ userProfile["c1"].completedTasks = <<>>
  /\ userProfile["c1"].coins = 0

\* The onAuthStateChanged callback of client c is suspended in its
\* fetchUserProfile.
Fetching(c) ==
  \E i \in 1..Len(pending[c]) : pending[c][i].kind \in {"getProfile", "setProfile"}

\* C25: in every state in which no auth callback and no profile fetch is in
\* flight, a session without a user has no cached profile: currentUser =
\* null implies userProfile = null.
C25_SignedOutHasNoProfile ==
  \A c \in Clients :
    (~Fetching(c) /\ currentUser[c] = NULL) => userProfile[c] = NullRec

\* C26: in every reachable state of the AuthProvider, loading = false
\* together with a signed-in user implies that the profile is cached.
C26_LoadedUserHasProfile ==
  \A c \in Clients :
    (~loading[c] /\ currentUser[c] # NULL) => userProfile[c] # NullRec

\* C27: once every started profile operation of a session has finished,
\* the cached profile equals the stored document: the step that ends the
\* last suspended operation (updateProfile, addCompletedTask, addFriend,
\* removeFriend) of the signed-in user leaves the cache equal to the
\* document of that user in the store.
C27_CacheEqualsStore ==
  [][\A c \in Clients, i \in 1..MaxPending + 1 :
       (/\ Resumed(c, i)
        /\ pending[c][i].kind \in WriteKinds
        /\ pending'[c] = <<>>
        /\ currentUser[c] = pending[c][i].uid)
       => userProfile'[c] = users'[pending[c][i].uid]]_vars

(***************************************************************************)
(* SpecTaskTwice: addCompletedTask(t, n) called twice in one session, the  *)
(* second call before or after the first one resumed                       *)
(***************************************************************************)
TaskLists == {<<>>, <<"t1">>, <<"t2">>, <<"t1", "t2">>, <<"t2", "t1">>}

\* A session of c1 as u1 with the profile loaded from the store.
Loaded(profile) ==
  /\ now = 0
  /\ users = [u \in Users |-> IF u = "u1" THEN profile ELSE NullRec]
  /\ rooms = EmptyRooms
  /\ currentUser = [c \in Clients |-> IF c = "c1" THEN "u1" ELSE NULL]
  /\ authUser = [c \in Clients |-> IF c = "c1" THEN "u1" ELSE "init"]
  /\ userProfile = [c \in Clients |-> IF c = "c1" THEN profile ELSE NullRec]
  /\ loading = [c \in Clients |-> c # "c1"]
  /\ pending = [c \in Clients |-> <<>>]
  /\ modal = [c \in Clients |-> "none"]
  /\ route = [c \in Clients |-> <<>>]
  /\ roomOp = [c \in Clients |-> Idle]
  /\ detail = [c \in Clients |-> "none"]
  /\ listOp = [c \in Clients |-> Idle]
  /\ myRooms = [c \in Clients |-> <<>>]
  /\ chOp = [c \in Clients |-> Idle]
  /\ chResult = [c \in Clients |-> "none"]
  /\ error = [c \in Clients |-> ""]

InitTaskTwice ==
  \E tasks \in TaskLists, coins \in 0..1, t \in Tasks, n \in Rewards :
    LET profile == Merge(NewProfile("0", 1),
                         [completedTasks |-> tasks, coins |-> coins])
    IN /\ Loaded(profile)
       /\ sc = [taskId |-> t, coinsEarned |-> n, before |-> profile,
                calls |-> 0, written |-> 0, late |-> FALSE]

\* One of the two calls; `late` records a call that suspended on a write
\* although an earlier call had already stored the task.
TwiceCall ==
  /\ sc.calls < 2
  /\ AddCompletedTask("c1", sc.taskId, sc.coinsEarned)
  /\ sc' = [sc EXCEPT !.calls = @ + 1,
                      !.late = @ \/ (sc.written > 0 /\ pending' # pending)]

TwiceDone ==
  /\ \E i \in 1..MaxPending + 1 : WriteDone("c1", i)
  /\ sc' = [sc EXCEPT !.written = @ + 1]

TwiceFail ==
  /\ \E i \in 1..MaxPending + 1 : WriteFail("c1", i)
  /\ UNCHANGED sc

NextTaskTwice == TwiceCall \/ TwiceDone \/ TwiceFail

SpecTaskTwice == InitTaskTwice /\ [][NextTaskTwice]_vars

\* occurrences of x in list
RECURSIVE Count(_, _)
Count(list, x) ==
  IF list = <<>> THEN 0
  ELSE (IF Head(list) = x THEN 1 ELSE 0) + Count(Tail(list), x)

\* C6: after addCompletedTask(t, n) was called twice and both calls ended,
\* the stored coins went up by n exactly once and t is recorded exactly once
\* (if a write succeeded and t was not recorded before), the profile is
\* untouched otherwise; a call made after t was stored writes nothing.
C6_TaskTwiceCountsOnce ==
  /\ ~sc.late
  /\ (sc.calls = 2 /\ pending["c1"] = <<>>) =>
       /\ userProfile["c1"] = users["u1"]
       /\ IF sc.written > 0
            THEN /\ users["u1"].coins = sc.before.coins + sc.coinsEarned
                 /\ users["u1"].completedTasks
                      = Append(sc.before.completedTasks, sc.taskId)
                 /\ Count(users["u1"].completedTasks, sc.taskId) = 1
                 /\ users["u1"] = Merge(sc.before,
                                        [coins |-> users["u1"].coins,
                                         completedTasks |-> users["u1"].completedTasks])
            ELSE users["u1"] = sc.before

\* The second call came after the first one had stored the task, and
\* returned without writing.
C6_Witness ==
  /\ sc.calls = 2
  /\ sc.written = 1
  /\ pending["c1"] = <<>>
  /\ modal["c1"] = "none"
  /\ sc.before.completedTasks # <<>>
  /\ users["u1"].coins = sc.before.coins + sc.coinsEarned

(***************************************************************************)
(* SpecDistinctTasks: addCompletedTask called for pairwise distinct task   *)
(* ids in one session, a call before or after the earlier ones resumed.    *)
(* sc records the ids called, the ids stored and the coins they earned.    *)
(***************************************************************************)
InitDistinctTasks ==
  \E tasks \in TaskLists, coins \in 0..1 :
    LET profile == Merge(NewProfile("0", 1),
                         [completedTasks |-> tasks, coins |-> coins])
    IN /\ Loaded(profile)
       /\ sc = [before |-> profile, called |-> {}, stored |-> {},
                earned |-> 0, failed |-> FALSE]

\* A call for a task id that was not called before.
DistinctCall ==
  \E t \in Tasks \ sc.called, n \in Rewards :
    /\ AddCompletedTask("c1", t, n)
    /\ sc' = [sc EXCEPT !.called = @ \cup {t}]

DistinctDone ==
  \E i \in 1..MaxPending + 1 :
    /\ WriteDone("c1", i)
    /\ sc' = [sc EXCEPT !.stored = @ \cup {pending["c1"][i].taskId},
                        !.earned = @ + pending["c1"][i].coinsEarned]

DistinctFail ==
  /\ \E i \in 1..MaxPending + 1 : WriteFail("c1", i)
  /\ sc' = [sc EXCEPT !.failed = TRUE]

NextDistinctTasks == DistinctCall \/ DistinctDone \/ DistinctFail

SpecDistinctTasks == InitDistinctTasks /\ [][NextDistinctTasks]_vars

\* C24: no award is lost under interleaving: once the addCompletedTask calls
\* for pairwise distinct task ids have all ended and none has failed, every
\* task id whose write was stored is in the stored completedTasks and the
\* stored coins are the starting coins plus the coins these calls earned.
C24_NoAwardLost ==
  (pending["c1"] = <<>> /\ ~sc.failed) =>
    /\ \A t \in sc.stored : Includes(users["u1"].completedTasks, t)
    /\ users["u1"].coins = sc.before.coins + sc.earned

(***************************************************************************)
(* SpecGuards: one AuthProvider session of a returning user and its rooms  *)
(* page; the handlers are called in every state of the session, signed in  *)
(* or not, with or without a cached profile.  sc records the last call,    *)
(* also when the handler returned at once.                                 *)
(***************************************************************************)
MaxGuardCalls == 3   \* auth events and handler calls per behaviour

ProfileOps == {"updateProfile", "addCompletedTask", "addFriend", "removeFriend"}
RoomOps == {"createRoom", "joinRoom"}

InitGuards ==
  /\ now = 0
  /\ users = [u \in Users |-> IF u = "u1" THEN NewProfile("0", 1) ELSE NullRec]
  /\ rooms = EmptyRooms
  /\ currentUser = [c \in Clients |-> NULL]
  /\ authUser = [c \in Clients |-> "init"]
  /\ userProfile = [c \in Clients |-> NullRec]
  /\ loading = [c \in Clients |-> TRUE]
  /\ pending = [c \in Clients |-> <<>>]
  /\ modal = [c \in Clients |-> "none"]
  /\ route = [c \in Clients |-> <<>>]
  /\ roomOp = [c \in Clients |-> Idle]
  /\ detail = [c \in Clients |-> "none"]
  /\ listOp = [c \in Clients |-> Idle]
  /\ myRooms = [c \in Clients |-> <<>>]
  /\ chOp = [c \in Clients |-> Idle]
  /\ chResult = [c \in Clients |-> "none"]
  /\ error = [c \in Clients |-> ""]
  /\ sc = [calls |-> 0, last |-> NoCall]

GuardCalled(c, op) ==
  /\ sc.calls < MaxGuardCalls
  /\ sc' = [calls |-> sc.calls + 1, last |-> [c |-> c, op |-> op, winner |-> NULL]]

NextGuards ==
  \/ \E c \in AuthClients, u \in AuthUsers \cup {NULL} :
       AuthStateChanged(c, u) /\ GuardCalled(c, "authStateChanged")
  \/ \E c \in AuthClients, i \in 1..MaxPending + 1 : FetchFound(c, i) /\ UNCHANGED sc
  \/ \E c \in AuthClients, i \in 1..MaxPending + 1 : FetchFail(c, i) /\ UNCHANGED sc
  \/ \E c \in AuthClients, data \in ProfileEdits :
       UpdateProfile(c, data) /\ GuardCalled(c, "updateProfile")
  \/ \E c \in AuthClients, t \in Tasks, n \in Rewards :
       AddCompletedTask(c, t, n) /\ GuardCalled(c, "addCompletedTask")
  \/ \E c \in AuthClients, f \in FriendIds :
       AddFriend(c, f) /\ GuardCalled(c, "addFriend")
  \/ \E c \in AuthClients, f \in FriendIds :
       RemoveFriend(c, f) /\ GuardCalled(c, "removeFriend")
  \/ \E c \in AuthClients, i \in 1..MaxPending + 1 : WriteDone(c, i) /\ UNCHANGED sc
  \/ \E c \in AuthClients, i \in 1..MaxPending + 1 : WriteFail(c, i) /\ UNCHANGED sc
  \/ \E c \in AuthClients : CreateRoom(c) /\ GuardCalled(c, "createRoom")
  \/ \E c \in AuthClients : CreateRoomDone(c) /\ UNCHANGED sc
  \/ \E c \in AuthClients : CreateRoomFail(c) /\ UNCHANGED sc
  \/ \E c \in AuthClients, input \in JoinInputs :
       JoinRoom(c, input) /\ GuardCalled(c, "joinRoom")
  \/ \E c \in AuthClients : JoinRoomRead(c) /\ UNCHANGED sc
  \/ \E c \in AuthClients : JoinRoomFail(c) /\ UNCHANGED sc

SpecGuards == InitGuards /\ [][NextGuards]_vars

\* The step in which client c calls the handler op.
GuardCall(c, op) ==
  /\ sc'.calls = sc.calls + 1
  /\ sc'.last.c = c
  /\ sc'.last.op = op

\* The step issues no request to the store and changes neither the store
\* nor a cached profile.
NothingDone ==
  /\ users' = users
  /\ rooms' = rooms
  /\ userProfile' = userProfile
  /\ pending' = pending
  /\ roomOp' = roomOp
  /\ modal' = modal
  /\ route' = route

\* C28: without a signed-in user, updateProfile, addCompletedTask, addFriend,
\* removeFriend, createRoom and joinRoom issue no store request and leave
\* store and cached profile unchanged; addCompletedTask, addFriend and
\* removeFriend do the same while no profile is cached.
C28_SignedOutCallsDoNothing ==
  [][\A c \in Clients :
       /\ \A op \in ProfileOps \cup RoomOps :
            (GuardCall(c, op) /\ currentUser[c] = NULL) => NothingDone
       /\ \A op \in ProfileOps \ {"updateProfile"} :
            (GuardCall(c, op) /\ userProfile[c] = NullRec) => NothingDone]_vars

\* addCompletedTask was called in a session that has no user but still
\* holds a profile in its cache (the fetch of the user who signed out
\* resolved late): nothing is in flight and the store is as it was.
C28_Witness ==
  /\ sc.last.op = "addCompletedTask"
  /\ currentUser["c1"] = NULL
  /\ userProfile["c1"] # NullRec
  /\ pending["c1"] = <<>>
  /\ users["u1"] = NewProfile("0", 1)

(***************************************************************************)
(* SpecSignIn: the login page of a returning user, the sign-in handlers of *)
(* the AuthProvider and the events of the auth service.  SpecSignInFair    *)
(* adds that the auth service answers every call: a request always         *)
(* completes or fails.                                                     *)
(***************************************************************************)
MaxSignInCalls == 3  \* auth events and login handler calls per behaviour

InitSignIn ==
  /\ InitGuards

SignInCalled(c, op) ==
  /\ sc.calls < MaxSignInCalls
  /\ sc' = [calls |-> sc.calls + 1, last |-> [c |-> c, op |-> op, winner |-> NULL]]

\* The auth service answers a sign-in call of client c.
SignInAnswered(c) ==
  /\ \E i \in 1..MaxPending + 1 : SignInDone(c, i) \/ SignInFail(c, i)
  /\ UNCHANGED sc

NextSignIn ==
  \/ \E c \in AuthClients, u \in AuthUsers \cup {NULL} :
       AuthStateChanged(c, u) /\ SignInCalled(c, "authStateChanged")
  \/ \E c \in AuthClients, i \in 1..MaxPending + 1 : FetchFound(c, i) /\ UNCHANGED sc
  \/ \E c \in AuthClients, i \in 1..MaxPending + 1 : FetchFail(c, i) /\ UNCHANGED sc
  \/ \E c \in AuthClients :
       handleAnonymousLogin(c) /\ SignInCalled(c, "handleAnonymousLogin")
  \/ \E c \in AuthClients, isSignUp \in BOOLEAN, password, confirmPassword \in Passwords :
       /\ handleEmailAuth(c, isSignUp, password, confirmPassword)
       /\ SignInCalled(c, "handleEmailAuth")
  \/ \E c \in AuthClients, recaptchaVerifier \in BOOLEAN :
       handlePhoneLogin(c, recaptchaVerifier) /\ SignInCalled(c, "handlePhoneLogin")
  \/ \E c \in AuthClients : SignInAnswered(c)

SpecSignIn == InitSignIn /\ [][NextSignIn]_vars

SpecSignInFair ==
  SpecSignIn /\ \A c \in AuthClients : WF_vars(SignInAnswered(c))

\* A sign-in handler of client c is suspended at its auth call.
SigningIn(c) ==
  \E i \in 1..Len(pending[c]) : pending[c][i].kind = "signIn"

\* The step in which the i-th suspended handler of client c, a sign-in
\* handler, ends.
SignInEnds(c, i) ==
  /\ Resumed(c, i)
  /\ pending[c][i].kind = "signIn"

\* C29: every sign-in handler (anonymous, email sign-in, email sign-up,
\* phone) eventually ends, whether the auth call succeeds or fails; the
\* step in which it ends sets loading = false, so that loading is false
\* once no sign-in handler is running; a handler whose auth call failed
\* shows its modal, leaves currentUser as it was and hands no error to the
\* login page (the page's error is not set).
C29_SignInEndsNotLoading ==
  /\ \A c \in AuthClients : SigningIn(c) ~> (~SigningIn(c) /\ ~loading[c])
  /\ [][\A c \in Clients, i \in 1..MaxPending + 1 :
          SignInEnds(c, i) =>
            /\ ~loading'[c]
            /\ currentUser'[c] = currentUser[c]
            /\ error'[c] = error[c]]_vars

\* The email sign-in of a signed-out user failed: its modal is shown, no
\* handler is running, loading is false, there still is no user, and the
\* login page shows no error.
C29_Witness ==
  /\ modal["c1"] = "Login Error"
  /\ ~SigningIn("c1")
  /\ ~loading["c1"]
  /\ currentUser["c1"] = NULL
  /\ authUser["c1"] = NULL
  /\ error["c1"] = ""

(***************************************************************************)
(* SpecFriendRoundTrip: addFriend(f), and once it ended, removeFriend(f)   *)
(***************************************************************************)
FriendLists ==
  {<<>>, <<"u1">>, <<"u2">>, <<"u3">>, <<"u2", "u3">>, <<"u3", "u2">>,
   <<"u1", "u2">>, <<"u3", "u1">>, <<"u2", "u3", "u1">>}

InitFriendRoundTrip ==
  \E friends \in FriendLists, f \in Users, coins \in 0..1 :
    LET profile == Merge(NewProfile("0", 1),
                         [friendsList |-> friends, coins |-> coins])
    IN /\ Loaded(profile)
       /\ sc = [friendId |-> f, before |-> profile, step |-> "start",
                added |-> FALSE, removed |-> FALSE]

RoundTripAdd ==
  /\ sc.step = "start"
  /\ AddFriend("c1", sc.friendId)
  /\ sc' = [sc EXCEPT !.step = IF pending' # pending THEN "adding" ELSE "addEnded"]

RoundTripAddDone ==
  /\ sc.step = "adding"
  /\ WriteDone("c1", 1)
  /\ sc' = [sc EXCEPT !.step = "addEnded", !.added = TRUE]

RoundTripAddFail ==
  /\ sc.step = "adding"
  /\ WriteFail("c1", 1)
  /\ sc' = [sc EXCEPT !.step = "addEnded"]

RoundTripRemove ==
  /\ sc.step = "addEnded"
  /\ RemoveFriend("c1", sc.friendId)
  /\ sc' = [sc EXCEPT !.step = IF pending' # pending THEN "removing" ELSE "ended"]

RoundTripRemoveDone ==
  /\ sc.step = "removing"
  /\ WriteDone("c1", 1)
  /\ sc' = [sc EXCEPT !.step = "ended", !.removed = TRUE]

RoundTripRemoveFail ==
  /\ sc.step = "removing"
  /\ WriteFail("c1", 1)
  /\ sc' = [sc EXCEPT !.step = "ended"]

NextFriendRoundTrip ==
  \/ RoundTripAdd
  \/ RoundTripAddDone
  \/ RoundTripAddFail
  \/ RoundTripRemove
  \/ RoundTripRemoveDone
  \/ RoundTripRemoveFail

SpecFriendRoundTrip == InitFriendRoundTrip /\ [][NextFriendRoundTrip]_vars

\* C8 as stated: for every identifier f, after addFriend(f) and then a
\* removeFriend(f) that was stored, friendsList is what it was before.
C8_RoundTripAnyFriend ==
  (sc.step = "ended" /\ sc.removed) =>
    /\ users["u1"].friendsList = sc.before.friendsList
    /\ userProfile["c1"].friendsList = sc.before.friendsList

\* C8 amended: for every identifier f that was not in friendsList, after
\* addFriend(f) and then a removeFriend(f) that was stored, friendsList (and
\* the whole profile) is what it was before.
C8_RoundTripNewFriend ==
  (sc.step = "ended" /\ sc.removed
     /\ ~Includes(sc.before.friendsList, sc.friendId)) =>
    /\ users["u1"] = sc.before
    /\ userProfile["c1"] = sc.before

\* A new friend was added to a list of two and removed again.
C8_Witness ==
  /\ sc.step = "ended"
  /\ sc.added
  /\ sc.removed
  /\ ~Includes(sc.before.friendsList, sc.friendId)
  /\ Len(sc.before.friendsList) = 2
  /\ users["u1"].friendsList = sc.before.friendsList

====
